---- MODULE Spec2Model ----
(***************************************************************************)
(* Model of options_pricing_backtest.py: Backtest.runBackTest and the      *)
(* pricing helpers of Options_Pricing it calls.                            *)
(*                                                                         *)
(* Dates are day numbers; day 0 is a Monday, so datetime.weekday() is      *)
(* d % 7 (Monday = 0, Friday = 4).  Python lists are TLA+ sequences; a     *)
(* Python (0-based) index n is the sequence position n + 1.  Closes,       *)
(* strikes, credits per contract and P&L are whole dollars.  The float     *)
(* NaN is the value NaN below, absorbed by arithmetic and false in every   *)
(* comparison.                                                             *)
(***************************************************************************)
EXTENDS Integers, Sequences, FiniteSets, TLC

VARIABLES df, shortList, longList, callDates, putDates,
          shortPrice, longPrice, shortStrike, longStrike,
          shortExpPrice, longExpPrice, shortCredit, longCredit,
          getExp, Date, Date2, pos, pc, printed, result

vars == <<df, shortList, longList, callDates, putDates,
          shortPrice, longPrice, shortStrike, longStrike,
          shortExpPrice, longExpPrice, shortCredit, longCredit,
          getExp, Date, Date2, pos, pc, printed, result>>

(***************************************************************************)
(* Bounds of the model.                                                    *)
(***************************************************************************)
\* how far past the target Friday the model follows the calendar search
MaxAdvance == 15
\* largest number of candidates of one side in the long series
MaxCands == 17

(***************************************************************************)
(* Program constants.                                                      *)
(***************************************************************************)
VolWindow == 252
RsiPeriod == 14
strikeWidth == 500
TradeCap == 15
ExpDays == 30
RsiHigh == 70
RsiLow == 30
BandLow == 100
BandHigh == 200

\* numpy.nan: what rolling(...).std() and ta.RSI yield before their window
\* is full, and what every computation on it yields
NaN == -999999

(***************************************************************************)
(* Float arithmetic and comparison with NaN.                               *)
(***************************************************************************)
Gt(a, b) == a # NaN /\ b # NaN /\ a > b

Lt(a, b) == a # NaN /\ b # NaN /\ a < b

Add(a, b) == IF a = NaN \/ b = NaN THEN NaN ELSE a + b

Sub(a, b) == IF a = NaN \/ b = NaN THEN NaN ELSE a - b

RECURSIVE sum(_)
sum(s) == IF s = <<>> THEN 0 ELSE Add(sum(SubSeq(s, 1, Len(s) - 1)), s[Len(s)])

(***************************************************************************)
(* Python list helpers.                                                    *)
(***************************************************************************)
\* list.index(x): the 0-based position of the first element equal to x
index(s, x) == (CHOOSE j \in 1..Len(s) : s[j] = x /\ \A h \in 1..(j - 1) : s[h] # x) - 1

\* list.index(s[n]) for the element met at 0-based position n of a list of
\* floats: identity is tried before equality, a NaN equals nothing else
indexOfElem(s, n) == IF s[n + 1] = NaN THEN n ELSE index(s, s[n + 1])

\* s[0:n] without the bound n
sliceUncapped(s, n) == s

\* s[0:n]
slice(s, n) == SubSeq(s, 1, IF Len(s) < n THEN Len(s) ELSE n)

\* x in s
isIn(x, s) == \E j \in 1..Len(s) : s[j] = x


weekday(d) == d % 7

\* the index labels of a run of rows of df
datesOf(bars) == [j \in 1..Len(bars) |-> bars[j].date]

(***************************************************************************)
(* The data frame of getPriceData, with the RSI column of line 98 and the  *)
(* volatility of getVol as columns RSI and Sigma.  Every series starts     *)
(* with df.pre quiet rows (RSI undefined for the first RsiPeriod rows and  *)
(* neutral afterwards, no volatility yet), which are kept as their number  *)
(* only, followed by the rows df.tail.                                     *)
(***************************************************************************)
nrows == df.pre + Len(df.tail)

quietRow(n) == [date |-> n - df.pre, Close |-> 150,
                RSI |-> IF n < RsiPeriod THEN NaN ELSE 50, Sigma |-> NaN]

\* the row at 0-based position n (an integer key on the date-indexed series,
\* as in getVol(self)[date], is taken as a position)
iloc(n) == IF n < df.pre THEN quietRow(n) ELSE df.tail[n - df.pre + 1]

rows == [j \in 1..nrows |-> iloc(j - 1)]

\* df[col][i] for an index label (date) i
row(i) == IF i < 0 THEN quietRow(i + df.pre)
          ELSE df.tail[CHOOSE j \in 1..Len(df.tail) : df.tail[j].date = i]

(***************************************************************************)
(* Options_Pricing.getVol: the rolling volatility, by 0-based position.    *)
(***************************************************************************)
getVol(date) == iloc(date).Sigma

(***************************************************************************)
(* Black-Scholes leg prices in 1/10000 dollar, T = exp = 1/12 and          *)
(* r = intRate = .01, sigma in percent: the values lines 62-65 and 83-86   *)
(* compute for the spots and volatilities of the model's price series.     *)
(***************************************************************************)
callPrice(S, K, sigma) ==
  IF sigma = NaN THEN NaN ELSE
  CASE S = 150 /\ K = 150 /\ sigma = 20 -> 35159
    [] S = 150 /\ K = 155 /\ sigma = 20 -> 15993
    [] S = 150 /\ K = 150 /\ sigma = 40 -> 69658
    [] S = 150 /\ K = 155 /\ sigma = 40 -> 48495
    [] S = 160 /\ K = 160 /\ sigma = 20 -> 37502
    [] S = 160 /\ K = 165 /\ sigma = 20 -> 18012
    [] S = 160 /\ K = 160 /\ sigma = 40 -> 74302
    [] S = 160 /\ K = 165 /\ sigma = 40 -> 52968

putPrice(S, K, sigma) ==
  IF sigma = NaN THEN NaN ELSE
  CASE S = 150 /\ K = 150 /\ sigma = 20 -> 33909
    [] S = 150 /\ K = 145 /\ sigma = 20 -> 14315
    [] S = 150 /\ K = 150 /\ sigma = 40 -> 68409
    [] S = 150 /\ K = 145 /\ sigma = 40 -> 45322
    [] S = 160 /\ K = 160 /\ sigma = 20 -> 36170
    [] S = 160 /\ K = 155 /\ sigma = 20 -> 16234
    [] S = 160 /\ K = 160 /\ sigma = 40 -> 72969
    [] S = 160 /\ K = 155 /\ sigma = 40 -> 49701

\* round(x, 2) of a price difference x given in 1/10000 dollar, in cents
round2(x) == IF x = NaN THEN NaN ELSE (x + 50) \div 100

\* round(S*1.03, -1) + bot, for a whole-dollar spot S
callStrike(S, bot) == 10 * ((S * 103 + 500) \div 1000) + bot

\* round(S - (S * .03), -1) - bot
putStrike(S, bot) == 10 * ((S * 100 - S * 3 + 500) \div 1000) - bot

\* [round(calls[0]-calls[1],2), strikes[0], strikes[1]]; the first entry in
\* cents
getCallData(S, date) ==
  LET sigma == getVol(date)
      strikes == <<callStrike(S, 0), callStrike(S, 5)>>
      calls == <<callPrice(S, strikes[1], sigma), callPrice(S, strikes[2], sigma)>>
  IN  <<round2(Sub(calls[1], calls[2])), strikes[1], strikes[2]>>

getPutData(S, date) ==
  LET sigma == getVol(date)
      strikes == <<putStrike(S, 0), putStrike(S, 5)>>
      puts == <<putPrice(S, strikes[1], sigma), putPrice(S, strikes[2], sigma)>>
  IN  <<round2(Sub(puts[1], puts[2])), strikes[1], strikes[2]>>

\* callData[0]*100: dollars per share (held in cents) to dollars per contract
perContract(c) == c

(***************************************************************************)
(* Signal and band tests of runBackTest.                                   *)
(***************************************************************************)
\* the comparison of line 113 made non-strict
isOverboughtInclusive(rsi) == rsi # NaN /\ rsi >= RsiHigh

isOverbought(rsi) == Gt(rsi, RsiHigh)

isOversold(rsi) == Lt(rsi, RsiLow)

inBand(close) == Gt(close, BandLow) /\ Lt(close, BandHigh)

\* i + timedelta(days=30)
target(i) == i + ExpDays

\* the loop of line 127 stopping on weekday 3 (Thursday)
RECURSIVE toThursday(_)
toThursday(d) == IF weekday(d) # 3 THEN toThursday(d + 1) ELSE d

\* while getExp.weekday() != 4: getExp += timedelta(days=1)
RECURSIVE toFriday(_)
toFriday(d) == IF weekday(d) # 4 THEN toFriday(d + 1) ELSE d

(***************************************************************************)
(* The price series handed to a run: the volatility of a row is undefined  *)
(* before position VolWindow.                                              *)
(***************************************************************************)
mkDf(pre, tail) ==
  [pre |-> pre,
   tail |-> [j \in 1..Len(tail) |->
               [date |-> tail[j].date, Close |-> tail[j].Close,
                RSI |-> tail[j].RSI,
                Sigma |-> IF pre + j - 1 < VolWindow THEN NaN ELSE tail[j].lvl]]]

bar(d, c, r, l) == [date |-> d, Close |-> c, RSI |-> r, lvl |-> l]

\* (RSI, close) of an entry bar of the short series
EntryKinds == { <<71, 150>>, <<71, 160>>, <<29, 150>>, <<70, 150>>, <<30, 150>>,
                <<71, 100>>, <<29, 200>> }

SigmaLevels == {20, 40}

\* close of a later bar of the short series; 0: the day has no bar
LateCloses == {0, 145, 150, 155}

optBar(d, c) == IF c = 0 THEN <<>> ELSE <<bar(d, c, 50, 20)>>

\* two entry bars (a Monday and a Thursday) and up to three bars on the
\* Fridays 30 days later and the Monday between them
shortSeries(pre, k1, l1, k2, l2, c32, c35, c39) ==
  mkDf(pre, <<bar(0, k1[2], k1[1], l1), bar(3, k2[2], k2[1], l2)>>
            \o optBar(32, c32) \o optBar(35, c35) \o optBar(39, c39))

\* the j-th weekday (0-based) from day 0
weekdayNo(j) == 7 * (j \div 5) + (j % 5)

\* every weekday is a bar: nc overbought bars, then np oversold bars, then
\* neutral bars with close late; entry closes run through pat
longSeries(nc, np, pat, late) ==
  mkDf(VolWindow,
       [j \in 1..(2 * MaxCands + 27) |->
          bar(weekdayNo(j - 1),
              IF j <= nc + np THEN pat[((j - 1) % Len(pat)) + 1] ELSE late,
              IF j <= nc THEN 71 ELSE IF j <= nc + np THEN 29 ELSE 50,
              IF j % 2 = 0 THEN 20 ELSE 40)])

noResult == [status |-> "running", pnl |-> 0, collateral |-> 0]

Init ==
  /\ \/ \E pre \in {VolWindow - 1, VolWindow}, k1, k2 \in EntryKinds,
           l2 \in SigmaLevels, c32, c39 \in LateCloses, c35 \in {0, 152} :
          df = shortSeries(pre, k1, 20, k2, l2, c32, c35, c39)
     \/ \E nc, np \in (MaxCands - 2)..MaxCands,
           pat \in {<<150>>, <<150, 160>>}, late \in {145, 155} :
          df = longSeries(nc, np, pat, late)
  /\ shortList = <<>> /\ longList = <<>>
  /\ callDates = <<>> /\ putDates = <<>>
  /\ shortPrice = <<>> /\ longPrice = <<>>
  /\ shortStrike = <<>> /\ longStrike = <<>>
  /\ shortExpPrice = <<>> /\ longExpPrice = <<>>
  /\ shortCredit = <<>> /\ longCredit = <<>>
  /\ getExp = 0 /\ Date = 0 /\ Date2 = 0 /\ pos = 0
  /\ pc = "scan"
  /\ printed = <<>>
  /\ result = noResult

\* validDates of lines 100 and 112: empty until the scan of df.index, every
\* index label afterwards
validDates == IF pc = "scan" THEN <<>> ELSE datesOf(rows)

(***************************************************************************)
(* runBackTest, lines 111-116: the scan of df.index.                       *)
(***************************************************************************)
ScanSignals ==
  /\ pc = "scan"
  /\ shortList' = datesOf(SelectSeq(rows, LAMBDA b : isOverbought(b.RSI)))
  /\ longList' = datesOf(SelectSeq(rows, LAMBDA b : ~isOverbought(b.RSI) /\ isOversold(b.RSI)))
  /\ pos' = 0
  /\ pc' = "callCand"
  /\ UNCHANGED <<df, callDates, putDates, shortPrice, longPrice, shortStrike,
                 longStrike, shortExpPrice, longExpPrice, shortCredit,
                 longCredit, getExp, Date, Date2, printed, result>>

(***************************************************************************)
(* Lines 122-131: one iteration of `for i in shortList`, up to the         *)
(* calendar search of line 129.                                            *)
(***************************************************************************)
CallCandidate ==
  /\ pc = "callCand"
  /\ pos < Len(shortList)
  /\ LET i == shortList[pos + 1] IN
       IF inBand(row(i).Close)
       THEN /\ callDates' = Append(callDates, i)
            /\ shortPrice' = Append(shortPrice, row(i).Close)
            /\ getExp' = toFriday(target(i))
            /\ pc' = "callExp"
       ELSE UNCHANGED <<callDates, shortPrice, getExp, pc>>
  /\ pos' = pos + 1
  /\ UNCHANGED <<df, shortList, longList, putDates, longPrice,
                 shortStrike, longStrike, shortExpPrice, longExpPrice,
                 shortCredit, longCredit, Date, Date2, printed, result>>

\* line 129-130: one turn of `while getExp not in validDates`
CallExpAdvance ==
  /\ pc = "callExp"
  /\ ~isIn(getExp, validDates)
  /\ getExp < toFriday(target(callDates[Len(callDates)])) + MaxAdvance
  /\ getExp' = getExp + 1
  /\ UNCHANGED <<df, shortList, longList, callDates, putDates,
                 shortPrice, longPrice, shortStrike, longStrike, shortExpPrice,
                 longExpPrice, shortCredit, longCredit, Date, Date2, pos, pc,
                 printed, result>>

\* line 131
CallExpFound ==
  /\ pc = "callExp"
  /\ isIn(getExp, validDates)
  /\ shortExpPrice' = Append(shortExpPrice, row(getExp).Close)
  /\ pc' = "callCand"
  /\ UNCHANGED <<df, shortList, longList, callDates, putDates,
                 shortPrice, longPrice, shortStrike, longStrike, longExpPrice,
                 shortCredit, longCredit, getExp, Date, Date2, pos, printed,
                 result>>

\* `for i in shortList` is exhausted
CallCandidatesDone ==
  /\ pc = "callCand"
  /\ pos = Len(shortList)
  /\ pos' = 0
  /\ pc' = "putCand"
  /\ UNCHANGED <<df, shortList, longList, callDates, putDates,
                 shortPrice, longPrice, shortStrike, longStrike, shortExpPrice,
                 longExpPrice, shortCredit, longCredit, getExp, Date, Date2,
                 printed, result>>

(***************************************************************************)
(* Lines 134-143: the same for `for i in longList`.                        *)
(***************************************************************************)
PutCandidate ==
  /\ pc = "putCand"
  /\ pos < Len(longList)
  /\ LET i == longList[pos + 1] IN
       IF inBand(row(i).Close)
       THEN /\ putDates' = Append(putDates, i)
            /\ longPrice' = Append(longPrice, row(i).Close)
            /\ getExp' = toFriday(target(i))
            /\ pc' = "putExp"
       ELSE UNCHANGED <<putDates, longPrice, getExp, pc>>
  /\ pos' = pos + 1
  /\ UNCHANGED <<df, shortList, longList, callDates, shortPrice,
                 shortStrike, longStrike, shortExpPrice, longExpPrice,
                 shortCredit, longCredit, Date, Date2, printed, result>>

PutExpAdvance ==
  /\ pc = "putExp"
  /\ ~isIn(getExp, validDates)
  /\ getExp < toFriday(target(putDates[Len(putDates)])) + MaxAdvance
  /\ getExp' = getExp + 1
  /\ UNCHANGED <<df, shortList, longList, callDates, putDates,
                 shortPrice, longPrice, shortStrike, longStrike, shortExpPrice,
                 longExpPrice, shortCredit, longCredit, Date, Date2, pos, pc,
                 printed, result>>

PutExpFound ==
  /\ pc = "putExp"
  /\ isIn(getExp, validDates)
  /\ longExpPrice' = Append(longExpPrice, row(getExp).Close)
  /\ pc' = "putCand"
  /\ UNCHANGED <<df, shortList, longList, callDates, putDates,
                 shortPrice, longPrice, shortStrike, longStrike, shortExpPrice,
                 shortCredit, longCredit, getExp, Date, Date2, pos, printed,
                 result>>

PutCandidatesDone ==
  /\ pc = "putCand"
  /\ pos = Len(longList)
  /\ pos' = 0
  /\ pc' = "priceCall"
  /\ UNCHANGED <<df, shortList, longList, callDates, putDates,
                 shortPrice, longPrice, shortStrike, longStrike, shortExpPrice,
                 longExpPrice, shortCredit, longCredit, getExp, Date, Date2,
                 printed, result>>

(***************************************************************************)
(* Lines 148-155: one iteration of `for i in shortPrice[0:15]`.            *)
(***************************************************************************)
PriceCall ==
  /\ pc = "priceCall"
  /\ pos < Len(slice(shortPrice, TradeCap))
  /\ LET i == slice(shortPrice, TradeCap)[pos + 1]
         w == index(shortPrice, i)
         D == index(validDates, callDates[w + 1])
         callData == getCallData(i, D)
         credit == perContract(callData[1])
     IN  /\ Date' = D
         /\ shortCredit' = Append(shortCredit, credit)
         /\ shortStrike' = Append(shortStrike, callData[3])
         /\ printed' = Append(printed, <<"Sold credit call spread at",
                                         callData[2], callData[3], credit>>)
  /\ pos' = pos + 1
  /\ UNCHANGED <<df, shortList, longList, callDates, putDates,
                 shortPrice, longPrice, longStrike, shortExpPrice,
                 longExpPrice, longCredit, getExp, Date2, pc, result>>

PriceCallsDone ==
  /\ pc = "priceCall"
  /\ pos = Len(slice(shortPrice, TradeCap))
  /\ pos' = 0
  /\ pc' = "pricePut"
  /\ UNCHANGED <<df, shortList, longList, callDates, putDates,
                 shortPrice, longPrice, shortStrike, longStrike, shortExpPrice,
                 longExpPrice, shortCredit, longCredit, getExp, Date, Date2,
                 printed, result>>

(***************************************************************************)
(* Lines 160-167: one iteration of `for i in longPrice[0:15]`.             *)
(***************************************************************************)
PricePut ==
  /\ pc = "pricePut"
  /\ pos < Len(slice(longPrice, TradeCap))
  /\ LET i == slice(longPrice, TradeCap)[pos + 1]
         y == index(longPrice, i)
         D == index(validDates, putDates[y + 1])
         putData == getPutData(i, D)
         credit == perContract(putData[1])
     IN  /\ Date2' = D
         /\ longCredit' = Append(longCredit, credit)
         /\ longStrike' = Append(longStrike, putData[3])
         /\ printed' = Append(printed, <<"Sold credit put spread at",
                                         putData[2], putData[3], credit>>)
  /\ pos' = pos + 1
  /\ UNCHANGED <<df, shortList, longList, callDates, putDates,
                 shortPrice, longPrice, shortStrike, shortExpPrice,
                 longExpPrice, shortCredit, getExp, Date, pc, result>>

\* line 169
PricePutsDone ==
  /\ pc = "pricePut"
  /\ pos = Len(slice(longPrice, TradeCap))
  /\ pos' = 0
  /\ pc' = "evalCall"
  /\ printed' = Append(printed, <<"Calculating return...">>)
  /\ UNCHANGED <<df, shortList, longList, callDates, putDates,
                 shortPrice, longPrice, shortStrike, longStrike, shortExpPrice,
                 longExpPrice, shortCredit, longCredit, getExp, Date, Date2,
                 result>>

(***************************************************************************)
(* Lines 173-180: one iteration of `for i in shortCredit`.                 *)
(***************************************************************************)
EvalCall ==
  /\ pc = "evalCall"
  /\ pos < Len(shortCredit)
  /\ LET k == indexOfElem(shortCredit, pos) IN
       IF Gt(shortStrike[k + 1], shortExpPrice[k + 1])
       THEN /\ shortCredit' = shortCredit
            /\ printed' = Append(printed, <<"Profit of", shortCredit[k + 1]>>)
       ELSE /\ shortCredit' = [shortCredit EXCEPT ![k + 1] = Sub(@, strikeWidth)]
            /\ printed' = Append(printed, <<"Loss of", Sub(shortCredit[k + 1], strikeWidth)>>)
  /\ pos' = pos + 1
  /\ UNCHANGED <<df, shortList, longList, callDates, putDates,
                 shortPrice, longPrice, shortStrike, longStrike, shortExpPrice,
                 longExpPrice, longCredit, getExp, Date, Date2, pc, result>>

EvalCallsDone ==
  /\ pc = "evalCall"
  /\ pos = Len(shortCredit)
  /\ pos' = 0
  /\ pc' = "evalPut"
  /\ UNCHANGED <<df, shortList, longList, callDates, putDates,
                 shortPrice, longPrice, shortStrike, longStrike, shortExpPrice,
                 longExpPrice, shortCredit, longCredit, getExp, Date, Date2,
                 printed, result>>

(***************************************************************************)
(* Lines 184-191: one iteration of `for i in longCredit`.                  *)
(***************************************************************************)
EvalPut ==
  /\ pc = "evalPut"
  /\ pos < Len(longCredit)
  /\ LET k == indexOfElem(longCredit, pos) IN
       IF Lt(longStrike[k + 1], longExpPrice[k + 1])
       THEN /\ longCredit' = longCredit
            /\ printed' = Append(printed, <<"profit of", longCredit[k + 1]>>)
       ELSE /\ longCredit' = [longCredit EXCEPT ![k + 1] = Sub(@, strikeWidth)]
            /\ printed' = Append(printed, <<"loss of", Sub(longCredit[k + 1], strikeWidth)>>)
  /\ pos' = pos + 1
  /\ UNCHANGED <<df, shortList, longList, callDates, putDates,
                 shortPrice, longPrice, shortStrike, longStrike, shortExpPrice,
                 longExpPrice, shortCredit, getExp, Date, Date2, pc, result>>

EvalPutsDone ==
  /\ pc = "evalPut"
  /\ pos = Len(longCredit)
  /\ pos' = 0
  /\ pc' = "report"
  /\ UNCHANGED <<df, shortList, longList, callDates, putDates,
                 shortPrice, longPrice, shortStrike, longStrike, shortExpPrice,
                 longExpPrice, shortCredit, longCredit, getExp, Date, Date2,
                 printed, result>>

(***************************************************************************)
(* Lines 195-199: the report.  callDates[15] and putDates[15] raise        *)
(* IndexError on a list of fewer than 16 entries.                          *)
(***************************************************************************)
\* the collateral of line 199 counted over every candidate
collateralAllCandidates(sp, lp) == (Len(sp) + Len(lp)) * strikeWidth

collateral(sp, lp) == (Len(slice(sp, TradeCap)) + Len(slice(lp, TradeCap))) * strikeWidth

\* does s[n] exist
hasIndex(s, n) == n < Len(s)

Report ==
  /\ pc = "report"
  /\ LET pnl == Add(sum(shortCredit), sum(longCredit)) IN
       IF ~(hasIndex(callDates, 0) /\ hasIndex(callDates, TradeCap))
       THEN /\ result' = [status |-> "IndexError", pnl |-> 0, collateral |-> 0]
            /\ printed' = printed
       ELSE IF ~(hasIndex(putDates, 0) /\ hasIndex(putDates, TradeCap))
       THEN /\ result' = [status |-> "IndexError", pnl |-> 0, collateral |-> 0]
            /\ printed' = Append(printed, <<"Calls from", callDates[1], callDates[TradeCap + 1]>>)
       ELSE /\ result' = [status |-> "returned", pnl |-> pnl,
                          collateral |-> collateral(shortPrice, longPrice)]
            /\ printed' = printed \o <<
                 <<"Calls from", callDates[1], callDates[TradeCap + 1]>>,
                 <<"Puts from", putDates[1], putDates[TradeCap + 1]>> >>
  /\ pc' = "done"
  /\ UNCHANGED <<df, shortList, longList, callDates, putDates,
                 shortPrice, longPrice, shortStrike, longStrike, shortExpPrice,
                 longExpPrice, shortCredit, longCredit, getExp, Date, Date2,
                 pos>>

Next ==
  \/ ScanSignals
  \/ CallCandidate \/ CallExpAdvance \/ CallExpFound \/ CallCandidatesDone
  \/ PutCandidate \/ PutExpAdvance \/ PutExpFound \/ PutCandidatesDone
  \/ PriceCall \/ PriceCallsDone
  \/ PricePut \/ PricePutsDone
  \/ EvalCall \/ EvalCallsDone
  \/ EvalPut \/ EvalPutsDone
  \/ Report

Spec == Init /\ [][Next]_vars

(***************************************************************************)
(* What a run printed and what the series holds, for the properties.       *)
(***************************************************************************)
soldCalls == SelectSeq(printed, LAMBDA l : l[1] = "Sold credit call spread at")

soldPuts == SelectSeq(printed, LAMBDA l : l[1] = "Sold credit put spread at")

outcomes == SelectSeq(printed, LAMBDA l : l[1] \in {"Profit of", "Loss of", "profit of", "loss of"})

amounts(lines) == [j \in 1..Len(lines) |-> lines[j][2]]

tradingDays == ((0 - df.pre)..(0 - 1)) \cup {df.tail[j].date : j \in 1..Len(df.tail)}

\* the rows that qualify for a call spread and for a put spread
qualCalls == SelectSeq(rows, LAMBDA b : b.RSI # NaN /\ b.RSI > 70 /\ b.Close > 100 /\ b.Close < 200)

qualPuts == SelectSeq(rows, LAMBDA b : b.RSI # NaN /\ b.RSI < 30 /\ b.Close > 100 /\ b.Close < 200)

isPrefix(s, t) == Len(s) <= Len(t) /\ \A j \in 1..Len(s) : s[j] = t[j]

evaluated == pc \in {"report", "done"}

\* C1: once the evaluation passes are over, a CALL trade holds its credit
\* if its near strike is above the close at its expiration, a PUT trade if
\* its near strike is below it, and credit - 500 in every other case.
C1_OutcomeByNearStrike ==
  evaluated =>
    /\ \A k \in 1..Len(shortCredit) :
         shortCredit[k] = IF soldCalls[k][2] > shortExpPrice[k]
                          THEN soldCalls[k][4] ELSE Sub(soldCalls[k][4], 500)
    /\ \A k \in 1..Len(longCredit) :
         longCredit[k] = IF soldPuts[k][2] < longExpPrice[k]
                         THEN soldPuts[k][4] ELSE Sub(soldPuts[k][4], 500)

\* C2: a run that ends has returned a report; no run ends in an error.
C2_AlwaysReturnsReport == pc = "done" => result.status = "returned"

\* C3: the calendar search for an expiration never goes more than 14 days
\* past the first Friday on or after entry + 30 days.
C3_BoundedResolution ==
  /\ pc = "callExp" => getExp <= toFriday(target(callDates[Len(callDates)])) + 14
  /\ pc = "putExp" => getExp <= toFriday(target(putDates[Len(putDates)])) + 14

\* the first Friday on or after D + 30 days
firstFriday(D) == CHOOSE f \in (D + 30)..(D + 36) : f % 7 = 4

resolvedFor(D, E, days) ==
  /\ E >= D + 30
  /\ E \in days
  /\ \/ E = firstFriday(D)
     \/ /\ firstFriday(D) \notin days
        /\ E > firstFriday(D)
        /\ \A d \in firstFriday(D)..(E - 1) : d \notin days

\* C4: an expiration resolved for an entry date D is a trading date at
\* least 30 days after D: the first Friday on or after D + 30 days or, when
\* that Friday is no trading date, the first trading date after it; the
\* close recorded for the trade is the close of that date.
C4_ResolvedExpiration ==
  LET days == tradingDays IN
  /\ (Len(callDates) > 0 /\ Len(shortExpPrice) = Len(callDates) /\ Len(putDates) = 0)
       => resolvedFor(callDates[Len(callDates)], getExp, days)
  /\ (Len(putDates) > 0 /\ Len(longExpPrice) = Len(putDates))
       => resolvedFor(putDates[Len(putDates)], getExp, days)
  /\ \A k \in 1..Len(shortExpPrice) :
       \E E \in days : resolvedFor(callDates[k], E, days) /\ shortExpPrice[k] = row(E).Close
  /\ \A k \in 1..Len(longExpPrice) :
       \E E \in days : resolvedFor(putDates[k], E, days) /\ longExpPrice[k] = row(E).Close

\* an expiration was resolved to a trading date later than the Friday
C4_Witness ==
  /\ Len(callDates) > 0 /\ Len(shortExpPrice) = Len(callDates) /\ Len(putDates) = 0
  /\ getExp > firstFriday(callDates[Len(callDates)])
  /\ getExp \in tradingDays

\* C5: every priced trade has an entry date with a defined volatility.
C5_NoTradeWithoutVolatility ==
  LET dates == validDates IN
  /\ \A k \in 1..Len(shortCredit) : getVol(index(dates, callDates[k])) # NaN
  /\ \A k \in 1..Len(longCredit) : getVol(index(dates, putDates[k])) # NaN

priced == pc \in {"evalCall", "evalPut", "report", "done"}

min(a, b) == IF a < b THEN a ELSE b

\* C6: at most 15 trades are priced per side, and the priced trades of a
\* side are the first min(15, n) of its n qualifying rows, in order.
C6_FirstFifteenPerSide ==
  LET qc == qualCalls
      qp == qualPuts
      sc == soldCalls
      sp == soldPuts
  IN
  /\ Len(shortCredit) <= 15 /\ Len(longCredit) <= 15
  /\ Len(sc) = Len(shortCredit) /\ Len(sp) = Len(longCredit)
  /\ \A k \in 1..Len(sc) :
       k <= Len(qc) /\ sc[k][2] = callStrike(qc[k].Close, 0)
  /\ \A k \in 1..Len(sp) :
       k <= Len(qp) /\ sp[k][2] = putStrike(qp[k].Close, 0)
  /\ priced => /\ Len(shortCredit) = min(15, Len(qc))
               /\ Len(longCredit) = min(15, Len(qp))
  /\ pc = "done" => Len(outcomes) = Len(shortCredit) + Len(longCredit)

\* more than 15 rows qualified on each side and 15 were priced
C6_Witness ==
  /\ priced
  /\ Len(qualCalls) > 15 /\ Len(shortCredit) = 15
  /\ Len(qualPuts) > 15 /\ Len(longCredit) = 15

candidatesListed == pc \in {"priceCall", "pricePut", "evalCall", "evalPut", "report", "done"}

C8_ReportTotals ==
  result.status = "returned" =>
    /\ result.pnl = sum(amounts(outcomes))
    /\ result.collateral = 500 * (Len(soldCalls) + Len(soldPuts))

\* a report was returned for a run with a losing trade
C8_Witness ==
  /\ result.status = "returned"
  /\ \E j \in 1..Len(outcomes) : outcomes[j][1] \in {"Loss of", "loss of"}
  /\ result.pnl # NaN

\* C9: the volatility position handed to the pricer for the latest priced
\* trade of a side is the position of that trade's own entry date.
C9_OwnVolatility ==
  /\ Len(shortCredit) > 0 => Date = index(validDates, callDates[Len(shortCredit)])
  /\ Len(longCredit) > 0 => Date2 = index(validDates, putDates[Len(longCredit)])

\* C10: after the evaluation passes every trade holds its credit, reduced
\* by 500 once exactly when its own strike and expiration close meet the
\* loss condition of the pass.
C10_EachTradeEvaluatedOnce ==
  LET soldCallsNow == soldCalls
      soldPutsNow == soldPuts
  IN
  evaluated =>
    /\ \A k \in 1..Len(shortCredit) :
         shortCredit[k] = IF Gt(shortStrike[k], shortExpPrice[k])
                          THEN soldCalls[k][4] ELSE Sub(soldCalls[k][4], strikeWidth)
    /\ \A k \in 1..Len(longCredit) :
         longCredit[k] = IF Lt(longStrike[k], longExpPrice[k])
                         THEN soldPuts[k][4] ELSE Sub(soldPuts[k][4], strikeWidth)

====
